---- MODULE Spec2Model ----
(***************************************************************************)
(* A model of src/extractData.py: one pass of analyze_pdf_with_textract    *)
(* over a Textract response, with the helpers get_text_from_block and      *)
(* find_value_block.                                                       *)
(*                                                                         *)
(* Python strings that the code inspects character by character (key and   *)
(* value texts, vocabulary variants, field names) are sequences of         *)
(* one-character strings; Chars turns a literal into such a sequence.      *)
(* Block types, relationship types, entity types and block ids are only    *)
(* compared for equality and stay atomic strings.  A Textract block is a   *)
(* record whose optional keys ('Text', 'Relationships', ...) are present   *)
(* or absent in its DOMAIN, as in the dict the code reads.                 *)
(***************************************************************************)
EXTENDS Integers, Sequences, FiniteSets, TLC

VARIABLES
    target_keys_config,   \* parameter: the vocabulary, a list of <<variant, display_key>>
    response,             \* what textract.analyze_document returns or raises, or NoClient
    pc,                   \* "Start", "Scanning", "Failed", "Empty", "Done"
    calls,                \* how many times analyze_document was invoked
    blocks_map,           \* line 136
    normalized_lookup,    \* lines 141-144
    extracted_data_raw,   \* line 137
    idx,                  \* position of the for loop of line 147 in blocks
    key_text,             \* line 151, of the last KEY block scanned
    normalized_found_key, \* line 153, of the last KEY block scanned
    raised,               \* the exception caught by the except clauses, or "none"
    result                \* the value returned by the pass

vars == <<target_keys_config, response, pc, calls, blocks_map, normalized_lookup,
          extracted_data_raw, idx, key_text, normalized_found_key, raised, result>>

-----------------------------------------------------------------------------
(* Bounds of the model.                                                    *)

\* the longest list of KEY blocks drawn from the pool for one response
MaxKeys == 2
\* the longest free key text drawn over KeyAlphabet
MaxLen == 4
\* the longest vocabulary drawn from the variant pool
MaxVocab == 2
\* the most calls of analyze_document a retrying pass would be followed for
MaxCalls == 3

-----------------------------------------------------------------------------
(* Python str operations, as the code uses them.                           *)

Chars(str) == SubSeq([i \in 1..Len(str) |-> SubSeq(str, i, i)], 1, Len(str))

\* the element of a one-element set.  The string operations below bind their
\* argument over a one-element set: an operator's argument is evaluated at each of
\* its uses, a variable bound over a set holds a value
TheOnly(S) == CHOOSE r \in S : TRUE

Whitespace == {" ", "\n", "\t"}

RECURSIVE lstrip(_, _)
\* s.lstrip(chars)
lstrip(s, chars) ==
    TheOnly({IF v # <<>> /\ Head(v) \in chars THEN lstrip(Tail(v), chars) ELSE v :
                v \in {s}})

RECURSIVE rstrip(_, _)
\* s.rstrip(chars)
rstrip(s, chars) ==
    TheOnly({IF v # <<>> /\ v[Len(v)] \in chars
             THEN rstrip(SubSeq(v, 1, Len(v) - 1), chars) ELSE v :
                v \in {s}})

\* s.strip()
strip(s) == rstrip(lstrip(s, Whitespace), Whitespace)

\* s.replace(old, new) for one-character old and new
replace(s, old, new) ==
    TheOnly({SubSeq([i \in 1..Len(v) |-> IF v[i] = old THEN new ELSE v[i]], 1, Len(v)) :
                v \in {s}})

UpperCase == Chars("ABCDEFGHIJKLMNOPQRSTUVWXYZ")
LowerCase == Chars("abcdefghijklmnopqrstuvwxyz")

UpperSet == {UpperCase[j] : j \in 1..Len(UpperCase)}
LowerSet == {LowerCase[j] : j \in 1..Len(LowerCase)}
ToLower == [c \in UpperSet |-> LowerCase[CHOOSE j \in 1..Len(UpperCase) : UpperCase[j] = c]]
ToUpper == [c \in LowerSet |-> UpperCase[CHOOSE j \in 1..Len(LowerCase) : LowerCase[j] = c]]

lower_char(c) == IF c \in UpperSet THEN ToLower[c] ELSE c

\* s.lower()
lower(s) ==
    TheOnly({SubSeq([i \in 1..Len(v) |-> lower_char(v[i])], 1, Len(v)) : v \in {s}})


-----------------------------------------------------------------------------
(* Configuration, lines 18-46.                                             *)

MeetingDate  == Chars("Meeting Date")
RecordNotice == Chars("Record Date for Notice")
RecordVoting == Chars("Record Date for Voting")
Beneficial   == Chars("Beneficial Ownership Determination Date")
SecNotice    == Chars("Securities entitled to Notice")
SecVote      == Chars("Securities entitled to Vote")
MeetingType  == Chars("Meeting Type")
DirectNobo   == Chars("Direct sending of proxy-related materials to NOBOs by issuer")
IssuerPayNl  == Chars("Issuer to pay for sending proxy-related materials to OBOs\nby proximate intermediary")
IssuerPay    == Chars("Issuer to pay for sending proxy-related materials to OBOs by proximate intermediary")
NoticeAccess == Chars("Notice and Access")

\* the dict of lines 20-33 in insertion order, each item <<key, display_key>>
TARGET_KEYS_MAP ==
    << <<MeetingDate, MeetingDate>>,
       <<RecordNotice, RecordNotice>>,
       <<RecordVoting, RecordVoting>>,
       <<Beneficial, Beneficial>>,
       <<SecNotice, SecNotice>>,
       <<SecVote, SecVote>>,
       <<MeetingType, MeetingType>>,
       <<DirectNobo, DirectNobo>>,
       <<IssuerPayNl, IssuerPay>>,
       <<IssuerPay, IssuerPay>>,
       <<NoticeAccess, NoticeAccess>> >>

ORDERED_DISPLAY_KEYS ==
    << MeetingDate, RecordNotice, RecordVoting, Beneficial, SecNotice, SecVote,
       MeetingType, DirectNobo, IssuerPay, NoticeAccess >>

NotFound == Chars("Not Found")

\* the two return values that are not a populated map
None      == [kind |-> "None"]
EmptyDict == [kind |-> "dict", items |-> <<>>]

-----------------------------------------------------------------------------
(* get_text_from_block, lines 50-80.                                       *)

\* faulty variant of ChildText: the separator after a child's text is left out
ChildText_no_separator(child_id, bmap) ==
    IF child_id \notin DOMAIN bmap
    THEN <<>>
    ELSE LET child_block == bmap[child_id]
         IN  IF child_block.BlockType = "WORD"
             THEN (IF "Text" \in DOMAIN child_block THEN child_block.Text ELSE <<>>)
             ELSE IF child_block.BlockType = "SELECTION_ELEMENT"
             THEN <<"[">>
                  \o (IF "SelectionStatus" \in DOMAIN child_block
                      THEN child_block.SelectionStatus
                      ELSE Chars("NOT_SELECTED"))
                  \o <<"]">>
             ELSE <<>>

\* lines 66-74: what one child id adds to text
ChildText(child_id, bmap) ==
    IF child_id \notin DOMAIN bmap
    THEN <<>>
    ELSE LET child_block == bmap[child_id]
         IN  IF child_block.BlockType = "WORD"
             THEN (IF "Text" \in DOMAIN child_block THEN child_block.Text ELSE <<>>) \o <<" ">>
             ELSE IF child_block.BlockType = "SELECTION_ELEMENT"
             THEN <<"[">>
                  \o (IF "SelectionStatus" \in DOMAIN child_block
                      THEN child_block.SelectionStatus
                      ELSE Chars("NOT_SELECTED"))
                  \o <<"]", " ">>
             ELSE <<>>

\* line 69: child_block['BlockType'] raises KeyError on a child without that key
ChildRaises(child_id, bmap) ==
    /\ child_id \in DOMAIN bmap
    /\ "BlockType" \notin DOMAIN bmap[child_id]

\* the for loop of line 65 over relationship['Ids']
RECURSIVE ChildIdsText(_, _)
ChildIdsText(ids, bmap) ==
    IF ids = <<>> THEN <<>>
    ELSE ChildText(Head(ids), bmap) \o ChildIdsText(Tail(ids), bmap)

\* the for loop of line 63 over block['Relationships'], CHILD relationships only
RECURSIVE ChildRelationshipsText(_, _)
ChildRelationshipsText(rels, bmap) ==
    IF rels = <<>> THEN <<>>
    ELSE (IF Head(rels).Type = "CHILD" THEN ChildIdsText(Head(rels).Ids, bmap) ELSE <<>>)
         \o ChildRelationshipsText(Tail(rels), bmap)

get_text_from_block(block, bmap) ==
    LET text == IF "Relationships" \in DOMAIN block
                THEN ChildRelationshipsText(block.Relationships, bmap)
                ELSE <<>>
    IN  IF strip(text) = <<>> /\ "Text" \in DOMAIN block
        THEN strip(block.Text)
        ELSE strip(text)

\* whether get_text_from_block(block, bmap) raises (KeyError at line 69)
get_text_raises(block, bmap) ==
    /\ "Relationships" \in DOMAIN block
    /\ \E r \in 1..Len(block.Relationships) :
          /\ block.Relationships[r].Type = "CHILD"
          /\ \E c \in 1..Len(block.Relationships[r].Ids) :
                ChildRaises(block.Relationships[r].Ids[c], bmap)

-----------------------------------------------------------------------------
(* find_value_block, lines 82-102.                                         *)

\* the for loop of line 97 over relationship['Ids']
RECURSIVE ValueIdsText(_, _)
ValueIdsText(ids, bmap) ==
    IF ids = <<>> THEN <<>>
    ELSE (IF Head(ids) \in DOMAIN bmap
          THEN get_text_from_block(bmap[Head(ids)], bmap) \o <<" ">>
          ELSE <<>>)
         \o ValueIdsText(Tail(ids), bmap)

\* the for loop of line 95 over key_block['Relationships'], VALUE relationships only
RECURSIVE ValueRelationshipsText(_, _)
ValueRelationshipsText(rels, bmap) ==
    IF rels = <<>> THEN <<>>
    ELSE (IF Head(rels).Type = "VALUE" THEN ValueIdsText(Head(rels).Ids, bmap) ELSE <<>>)
         \o ValueRelationshipsText(Tail(rels), bmap)

find_value_block(key_block, bmap) ==
    IF "Relationships" \in DOMAIN key_block
    THEN strip(ValueRelationshipsText(key_block.Relationships, bmap))
    ELSE <<>>

\* whether find_value_block(key_block, bmap) raises: a referenced value block does
find_value_raises(key_block, bmap) ==
    /\ "Relationships" \in DOMAIN key_block
    /\ \E r \in 1..Len(key_block.Relationships) :
          /\ key_block.Relationships[r].Type = "VALUE"
          /\ \E v \in 1..Len(key_block.Relationships[r].Ids) :
                /\ key_block.Relationships[r].Ids[v] \in DOMAIN bmap
                /\ get_text_raises(bmap[key_block.Relationships[r].Ids[v]], bmap)

-----------------------------------------------------------------------------
(* The steps of analyze_pdf_with_textract, lines 120-195.                  *)

\* line 136: {block['Id']: block for block in blocks}; a later block with the same
\* id replaces the earlier one
RECURSIVE blocks_map_upto(_, _)
\* the dict of line 136 after the first n blocks
blocks_map_upto(block_list, n) ==
    IF n = 0 THEN <<>>
    ELSE (block_list[n].Id :> block_list[n]) @@ blocks_map_upto(block_list, n - 1)

build_blocks_map(block_list) == blocks_map_upto(block_list, Len(block_list))

\* line 136 raises KeyError on a block without 'Id'
build_blocks_map_raises(block_list) ==
    \E i \in 1..Len(block_list) : "Id" \notin DOMAIN block_list[i]

\* line 142: the normal form of a vocabulary variant
normalize_variant(key) == lower(strip(replace(key, "\n", " ")))

\* lines 141-144: the dict comprehension over target_keys_config.items(); an item
\* whose normal form is already a key replaces that key's value
RECURSIVE lookup_first_upto(_, _)
\* faulty variant of lookup_upto: an item whose normal form is already a key is dropped
lookup_first_upto(config, n) ==
    IF n = 0 THEN <<>>
    ELSE lookup_first_upto(config, n - 1) @@ (normalize_variant(config[n][1]) :> config[n][2])

\* faulty variant of build_normalized_lookup: the first item of a normal form wins
build_normalized_lookup_first_wins(config) == lookup_first_upto(config, Len(config))

RECURSIVE lookup_upto(_, _)
\* the dict of lines 141-144 after the first n items of the vocabulary
lookup_upto(config, n) ==
    IF n = 0 THEN <<>>
    ELSE (normalize_variant(config[n][1]) :> config[n][2]) @@ lookup_upto(config, n - 1)

build_normalized_lookup(config) == lookup_upto(config, Len(config))

\* line 149
is_key_block(block) ==
    /\ "BlockType" \in DOMAIN block
    /\ block.BlockType = "KEY_VALUE_SET"
    /\ "EntityTypes" \in DOMAIN block
    /\ \E e \in 1..Len(block.EntityTypes) : block.EntityTypes[e] = "KEY"

\* faulty variant of normalize_found_key: the case of the found key is kept
normalize_found_key_case_sensitive(text) ==
    strip(replace(rstrip(strip(text), {":"}), "\n", " "))

\* line 153
normalize_found_key(text) ==
    lower(strip(replace(rstrip(strip(text), {":"}), "\n", " ")))

\* faulty variant of record_value: a later key block of a recorded field overwrites
record_value_overwrite(raw, canonical_key, block, bmap) ==
    (canonical_key :> find_value_block(block, bmap)) @@ raw

\* lines 160-162: the recorded values after a key block matched canonical_key
record_value(raw, canonical_key, block, bmap) ==
    IF canonical_key \in DOMAIN raw
    THEN raw
    ELSE (canonical_key :> find_value_block(block, bmap)) @@ raw

\* faulty variant of match_step: a key that is no vocabulary variant is recorded
\* under its own normal form
match_step_records_unmatched(raw, found_key, lookup, block, bmap) ==
    IF found_key \in DOMAIN lookup
    THEN (IF lookup[found_key] \in DOMAIN raw THEN raw
          ELSE (lookup[found_key] :> find_value_block(block, bmap)) @@ raw)
    ELSE (found_key :> find_value_block(block, bmap)) @@ raw

\* lines 155-162: the match step for one KEY block whose normal form is found_key
match_step(raw, found_key, lookup, block, bmap) ==
    IF found_key \in DOMAIN lookup
    THEN record_value(raw, lookup[found_key], block, bmap)
    ELSE raw

\* whether lines 155-162 raise: only a call of find_value_block can
match_step_raises(raw, found_key, lookup, block, bmap) ==
    /\ found_key \in DOMAIN lookup
    /\ lookup[found_key] \notin DOMAIN raw
    /\ find_value_raises(block, bmap)

\* faulty variant of final_results: only the recorded fields are returned
final_results_found_only(raw) ==
    [kind |-> "dict",
     items |-> SelectSeq(SubSeq([i \in 1..Len(ORDERED_DISPLAY_KEYS) |->
                                   << ORDERED_DISPLAY_KEYS[i],
                                      IF ORDERED_DISPLAY_KEYS[i] \in DOMAIN raw
                                      THEN raw[ORDERED_DISPLAY_KEYS[i]]
                                      ELSE NotFound >>],
                                1, Len(ORDERED_DISPLAY_KEYS)),
                         LAMBDA item : item[1] \in DOMAIN raw)]

\* lines 165-168
final_results(raw) ==
    [kind |-> "dict",
     items |-> SubSeq([i \in 1..Len(ORDERED_DISPLAY_KEYS) |->
                         << ORDERED_DISPLAY_KEYS[i],
                            IF ORDERED_DISPLAY_KEYS[i] \in DOMAIN raw
                            THEN raw[ORDERED_DISPLAY_KEYS[i]]
                            ELSE NotFound >>],
                      1, Len(ORDERED_DISPLAY_KEYS))]

\* faulty variant of no_blocks_result: the map of defaults is returned
no_blocks_defaults == final_results(<<>>)

\* line 134
no_blocks_result == EmptyDict

\* faulty variant of except_result: the fields recorded so far are returned
except_result_partial(raw) == final_results(raw)

\* lines 173-195: every except clause returns None
except_result(raw) == None

EmptyMap == <<>>
NoText == <<>>

-----------------------------------------------------------------------------
(* Responses of textract.analyze_document.                                 *)

Word(id, text) == [Id |-> id, BlockType |-> "WORD", Text |-> Chars(text)]

ValueSet(id, child_ids) ==
    [Id |-> id, BlockType |-> "KEY_VALUE_SET", EntityTypes |-> <<"VALUE">>,
     Relationships |-> << [Type |-> "CHILD", Ids |-> child_ids] >>]

\* a KEY block whose text is its own 'Text' and whose values are value_ids
KeyWithText(id, text, value_ids) ==
    [Id |-> id, BlockType |-> "KEY_VALUE_SET", EntityTypes |-> <<"KEY">>,
     Text |-> text,
     Relationships |-> << [Type |-> "VALUE", Ids |-> value_ids] >>]

\* the blocks a response carries beside its KEY blocks, in response order
SupportBlocks ==
    << [Id |-> "page", BlockType |-> "PAGE"],
       Word("wJune", "June"), Word("w15", "15,"), Word("w2024", "2024"),
       Word("wMEETING", "MEETING"), Word("wDATE", "DATE:"),
       [Id |-> "sel1", BlockType |-> "SELECTION_ELEMENT",
        SelectionStatus |-> Chars("SELECTED")],
       [Id |-> "sel2", BlockType |-> "SELECTION_ELEMENT"],
       [Id |-> "bad"],
       ValueSet("vDate", <<"wJune", "w15", "w2024">>),
       ValueSet("vSel", <<"sel1", "gone", "sel2">>),
       ValueSet("vBad", <<"wJune", "bad">>),
       [Id |-> "vText", BlockType |-> "KEY_VALUE_SET", EntityTypes |-> <<"VALUE">>,
        Text |-> Chars(" Annual\n")],
       [Id |-> "vEmpty", BlockType |-> "KEY_VALUE_SET", EntityTypes |-> <<"VALUE">>] >>

\* the ids a response may lack although its relationships name them
DroppableIds == {"w15", "vDate", "bad"}

\* the KEY blocks a response draws from
KeyPool ==
    { KeyWithText("kMD", Chars("Meeting Date:"), <<"vDate">>),
      [Id |-> "kMDup", BlockType |-> "KEY_VALUE_SET", EntityTypes |-> <<"KEY">>,
       Relationships |-> << [Type |-> "CHILD", Ids |-> <<"wMEETING", "wDATE">>] >>],
      KeyWithText("kMDtext", Chars("meeting date"), <<"vText">>),
      KeyWithText("kQ", Chars("Quorum Requirement"), <<"vDate">>),
      KeyWithText("kIss",
                  Chars("ISSUER TO PAY FOR SENDING PROXY-RELATED MATERIALS TO OBOS\nBY PROXIMATE INTERMEDIARY:"),
                  <<"vSel">>),
      KeyWithText("kMT", Chars("Meeting Type"), <<"vText", "vEmpty", "vGone", "vDate">>),
      KeyWithText("kBad", Chars("Notice and Access"), <<"vBad">>),
      [Id |-> "kSelf", BlockType |-> "KEY_VALUE_SET", EntityTypes |-> <<"KEY">>,
       Text |-> Chars("Record Date for Voting"),
       Relationships |-> << [Type |-> "CHILD", Ids |-> <<"kSelf">>],
                            [Type |-> "VALUE", Ids |-> <<"kSelf">>] >>] }

RECURSIVE SeqsUpTo(_, _)
\* the sequences of at most n distinct elements of S
SeqsUpTo(S, n) ==
    IF n = 0 THEN {<<>>}
    ELSE LET shorter == SeqsUpTo(S, n - 1)
         IN  shorter \cup
             {Append(q, x) : <<q, x>> \in
                 {<<q, x>> \in shorter \X S :
                     /\ Len(q) = n - 1
                     /\ \A i \in 1..Len(q) : q[i] # x}}

DropIds(blocks, gone) == SelectSeq(blocks, LAMBDA b : b.Id \notin gone)

\* boto3.client itself raises (line 122): no call is made and there is no response
NoClient == [kind |-> "no client"]

\* what the external call raises
ErrorKinds ==
    {"NoCredentialsError", "PartialCredentialsError", "ClientError", "Boto3Error", "Exception"}

\* responses built from the pool: the support blocks, at most one missing, then KEY
\* blocks in any order; a response with no blocks, with no 'Blocks' key, with a
\* block that has no 'Id'; and a call that raises
PoolResponses ==
    {[kind |-> "ok", Blocks |-> DropIds(SupportBlocks, gone) \o keys] :
        gone \in {{}} \cup {{id} : id \in DroppableIds},
        keys \in SeqsUpTo(KeyPool, MaxKeys)}
    \cup {[kind |-> "ok", Blocks |-> <<>>], [kind |-> "ok"]}
    \cup {[kind |-> "ok", Blocks |-> <<k, [BlockType |-> "LINE"]>>] : k \in KeyPool}
    \cup {[kind |-> e] : e \in ErrorKinds}
    \cup {NoClient}

-----------------------------------------------------------------------------
(* Key texts and vocabularies the pass is run on.                          *)

KeyAlphabet == {"a", "A", ":", " ", "\n"}

RECURSIVE TextsUpTo(_)
\* the texts over KeyAlphabet of at most n characters
TextsUpTo(n) ==
    IF n = 0 THEN {<<>>}
    ELSE LET shorter == TextsUpTo(n - 1)
         IN  shorter \cup {Append(t, c) : t \in {u \in shorter : Len(u) = n - 1},
                                          c \in KeyAlphabet}

\* a response whose only block is a KEY block with the given text and no value
OneKeyResponse(text) ==
    [kind |-> "ok",
     Blocks |-> << [Id |-> "k", BlockType |-> "KEY_VALUE_SET", EntityTypes |-> <<"KEY">>,
                    Text |-> text] >>]

FreeTextResponses == {OneKeyResponse(t) : t \in TextsUpTo(MaxLen)}

upper_char(c) == IF c \in LowerSet THEN ToUpper[c] ELSE c

CaseModes == {"asis", "upper", "lower", "swap"}

ChangeCase(s, mode) ==
    SubSeq([i \in 1..Len(s) |->
              CASE mode = "upper" -> upper_char(s[i])
                [] mode = "lower" -> lower_char(s[i])
                [] mode = "swap"  -> IF lower_char(s[i]) = s[i] THEN upper_char(s[i])
                                     ELSE lower_char(s[i])
                [] OTHER -> s[i]], 1, Len(s))

\* p = 0 leaves s alone; otherwise the newline at p becomes a space, or the space at
\* p a newline
SwapNewline(s, p) ==
    SubSeq([i \in 1..Len(s) |->
              IF i # p THEN s[i]
              ELSE IF s[i] = "\n" THEN " "
              ELSE IF s[i] = " " THEN "\n"
              ELSE s[i]], 1, Len(s))

EmbeddedBreaks(s) == {0} \cup {i \in 2..(Len(s) - 1) : s[i] \in {" ", "\n"}}

\* the key texts obtained from the variant v by a change of letter case, a swap of
\* one embedded newline or space, and an appended colon
VariantsOf(v) ==
    {ChangeCase(SwapNewline(v, p), mode) \o colon :
        p \in EmbeddedBreaks(v), mode \in CaseModes, colon \in {<<>>, <<":">>}}

VariantResponses ==
    {OneKeyResponse(k) :
        k \in UNION {VariantsOf(TARGET_KEYS_MAP[i][1]) : i \in 1..Len(TARGET_KEYS_MAP)}}

\* vocabularies with colliding variants
VariantPool == {Chars("Meeting Date"), Chars("meeting date"), Chars("MEETING\nDATE"),
                Chars("Meeting Type")}
DisplayPool == {MeetingDate, MeetingType, NoticeAccess}

Vocabularies ==
    {q \in SeqsUpTo(VariantPool \X DisplayPool, MaxVocab) :
        \A i, j \in 1..Len(q) : q[i][1] = q[j][1] => i = j}

VocabularyResponse ==
    [kind |-> "ok",
     Blocks |-> << KeyWithText("kMDtext", Chars("meeting date"), <<"vText">>),
                   [Id |-> "vText", BlockType |-> "KEY_VALUE_SET",
                    EntityTypes |-> <<"VALUE">>, Text |-> Chars(" Annual\n")] >>]

-----------------------------------------------------------------------------
(* The pass.                                                               *)

Pending == [kind |-> "pending"]

\* line 131: response.get('Blocks', [])
blocks == IF "Blocks" \in DOMAIN response THEN response.Blocks ELSE <<>>

Init ==
    /\ \/ /\ target_keys_config = TARGET_KEYS_MAP
          /\ response \in PoolResponses \cup FreeTextResponses \cup VariantResponses
       \/ /\ target_keys_config \in Vocabularies
          /\ response = VocabularyResponse
    /\ pc = "Start"
    /\ calls = 0
    /\ blocks_map = EmptyMap
    /\ normalized_lookup = EmptyMap
    /\ extracted_data_raw = EmptyMap
    /\ idx = 0
    /\ key_text = NoText
    /\ normalized_found_key = NoText
    /\ raised = "none"
    /\ result = Pending

\* lines 120-122 and 191-195: boto3.client raises, the last except clause returns
ClientRaises ==
    /\ pc = "Start"
    /\ response = NoClient
    /\ raised' = "Exception"
    /\ result' = except_result(extracted_data_raw)
    /\ pc' = "Failed"
    /\ UNCHANGED <<target_keys_config, response, calls, blocks_map, normalized_lookup,
                   extracted_data_raw, idx, key_text, normalized_found_key>>

\* faulty variant of AnalyzeDocumentRaises: the call is made again after a failure
AnalyzeDocumentRetries ==
    /\ pc = "Start"
    /\ response.kind \in ErrorKinds
    /\ calls < MaxCalls
    /\ calls' = calls + 1
    /\ raised' = response.kind
    /\ pc' = "Start"
    /\ UNCHANGED <<target_keys_config, response, blocks_map, normalized_lookup,
                   extracted_data_raw, idx, key_text, normalized_found_key, result>>

\* lines 120-128 and 172-195: the call raises and an except clause returns
AnalyzeDocumentRaises ==
    /\ pc = "Start"
    /\ response.kind \in ErrorKinds
    /\ calls' = calls + 1
    /\ raised' = response.kind
    /\ result' = except_result(extracted_data_raw)
    /\ pc' = "Failed"
    /\ UNCHANGED <<target_keys_config, response, blocks_map, normalized_lookup,
                   extracted_data_raw, idx, key_text, normalized_found_key>>

\* lines 120-134: the call returns no blocks
NoBlocks ==
    /\ pc = "Start"
    /\ response.kind = "ok"
    /\ blocks = <<>>
    /\ calls' = calls + 1
    /\ result' = no_blocks_result
    /\ pc' = "Empty"
    /\ UNCHANGED <<target_keys_config, response, blocks_map, normalized_lookup,
                   extracted_data_raw, idx, key_text, normalized_found_key, raised>>

\* lines 120-144: the call returns blocks, the index and the lookup are built
BuildIndex ==
    /\ pc = "Start"
    /\ response.kind = "ok"
    /\ blocks # <<>>
    /\ ~build_blocks_map_raises(blocks)
    /\ calls' = calls + 1
    /\ blocks_map' = build_blocks_map(blocks)
    /\ normalized_lookup' = build_normalized_lookup(target_keys_config)
    /\ idx' = 1
    /\ pc' = "Scanning"
    /\ UNCHANGED <<target_keys_config, response, extracted_data_raw, key_text,
                   normalized_found_key, raised, result>>

\* lines 120-136 and 191-195: building the index raises KeyError
BuildIndexRaises ==
    /\ pc = "Start"
    /\ response.kind = "ok"
    /\ blocks # <<>>
    /\ build_blocks_map_raises(blocks)
    /\ calls' = calls + 1
    /\ raised' = "KeyError"
    /\ result' = except_result(extracted_data_raw)
    /\ pc' = "Failed"
    /\ UNCHANGED <<target_keys_config, response, blocks_map, normalized_lookup,
                   extracted_data_raw, idx, key_text, normalized_found_key>>

\* whether the loop body of lines 148-162 raises on block
scan_raises(block) ==
    /\ is_key_block(block)
    /\ \/ get_text_raises(block, blocks_map)
       \/ match_step_raises(extracted_data_raw,
                            normalize_found_key(get_text_from_block(block, blocks_map)),
                            normalized_lookup, block, blocks_map)

\* lines 147-162: one iteration of the for loop that does not raise
ScanBlock ==
    /\ pc = "Scanning"
    /\ idx <= Len(blocks)
    /\ ~scan_raises(blocks[idx])
    /\ IF is_key_block(blocks[idx])
       THEN LET text  == get_text_from_block(blocks[idx], blocks_map)
                found == normalize_found_key(text)
            IN  /\ key_text' = text
                /\ normalized_found_key' = found
                /\ extracted_data_raw' =
                       match_step(extracted_data_raw, found, normalized_lookup,
                                  blocks[idx], blocks_map)
       ELSE UNCHANGED <<key_text, normalized_found_key, extracted_data_raw>>
    /\ idx' = idx + 1
    /\ UNCHANGED <<target_keys_config, response, pc, calls, blocks_map,
                   normalized_lookup, raised, result>>

\* lines 147-162 and 191-195: an iteration raises and the last except clause returns
ScanBlockRaises ==
    /\ pc = "Scanning"
    /\ idx <= Len(blocks)
    /\ scan_raises(blocks[idx])
    /\ raised' = "KeyError"
    /\ result' = except_result(extracted_data_raw)
    /\ pc' = "Failed"
    /\ UNCHANGED <<target_keys_config, response, calls, blocks_map, normalized_lookup,
                   extracted_data_raw, idx, key_text, normalized_found_key>>

\* lines 164-170: the loop is over
Finalize ==
    /\ pc = "Scanning"
    /\ idx > Len(blocks)
    /\ result' = final_results(extracted_data_raw)
    /\ pc' = "Done"
    /\ UNCHANGED <<target_keys_config, response, calls, blocks_map, normalized_lookup,
                   extracted_data_raw, idx, key_text, normalized_found_key, raised>>

Next ==
    \/ ClientRaises
    \/ AnalyzeDocumentRaises
    \/ NoBlocks
    \/ BuildIndex
    \/ BuildIndexRaises
    \/ ScanBlock
    \/ ScanBlockRaises
    \/ Finalize

Spec == Init /\ [][Next]_vars

\* the pass is one sequential call: a step that can be taken is taken
FairSpec == Spec /\ WF_vars(Next)

Terminal == {"Failed", "Empty", "Done"}

-----------------------------------------------------------------------------
(* Vocabulary of the properties.                                           *)

SetMin(S) == CHOOSE x \in S : \A y \in S : x <= y
SetMax(S) == CHOOSE x \in S : \A y \in S : x >= y

\* the value the returned map gives field F
ResultValue(F) == result.items[CHOOSE i \in 1..Len(result.items) : result.items[i][1] = F][2]

ResultKeys == [i \in 1..Len(result.items) |-> result.items[i][1]]

\* the positions of the KEY blocks of the response
KeyIndexes == {i \in 1..Len(blocks) : is_key_block(blocks[i])}

FoundKeyOf(i) == normalize_found_key(get_text_from_block(blocks[i], blocks_map))

\* the KEY block at position i normalises to a vocabulary variant of field F
MatchesField(i, F) ==
    /\ FoundKeyOf(i) \in DOMAIN normalized_lookup
    /\ normalized_lookup[FoundKeyOf(i)] = F

MatchedFields ==
    {normalized_lookup[FoundKeyOf(i)] :
        i \in {j \in KeyIndexes : FoundKeyOf(j) \in DOMAIN normalized_lookup}}

\* the first KEY block, in response order, that normalises to field F
FirstKeyFor(F) == blocks[SetMin({i \in KeyIndexes : MatchesField(i, F)})]

\* the KEY blocks of the response, in response order
KeyIds == [i \in 1..Cardinality(KeyIndexes) |->
             blocks[CHOOSE j \in KeyIndexes :
                       Cardinality({k \in KeyIndexes : k <= j}) = i].Id]

IsPoolResponse(gone, ids) ==
    /\ response.kind = "ok"
    /\ blocks # <<>>
    /\ \A i \in 1..Len(blocks) : "Id" \in DOMAIN blocks[i]
    /\ {blocks[i].Id : i \in 1..Len(blocks)} \cap {"page"} # {}
    /\ {blocks[i].Id : i \in 1..Len(blocks)} \cap DroppableIds = DroppableIds \ gone
    /\ KeyIds = ids

AllNotFoundExcept(F) ==
    \A i \in 1..Len(result.items) :
        result.items[i][1] # F => result.items[i][2] = NotFound

-----------------------------------------------------------------------------
(* C1: when the pass ends without failing on a response with at least one  *)
(* block, the returned map has exactly the fields of ORDERED_DISPLAY_KEYS  *)
(* as keys, each once and in list order, and the value of a field is the   *)
(* text recorded for it during the scan, or "Not Found" when no KEY block  *)
(* matched the field.                                                      *)
OrderedFieldsExactlyOnce ==
    pc = "Done" =>
        /\ result.kind = "dict"
        /\ ResultKeys = ORDERED_DISPLAY_KEYS
        /\ \A i, j \in 1..Len(result.items) :
              result.items[i][1] = result.items[j][1] => i = j
        /\ \A i \in 1..Len(ORDERED_DISPLAY_KEYS) :
              LET F == ORDERED_DISPLAY_KEYS[i]
              IN  /\ F \in MatchedFields <=> F \in DOMAIN extracted_data_raw
                  /\ F \in MatchedFields => result.items[i][2] = extracted_data_raw[F]
                  /\ F \notin MatchedFields => result.items[i][2] = NotFound

\* a finished pass with one field found and the others defaulted
OrderedFieldsWitness ==
    /\ pc = "Done"
    /\ IsPoolResponse({}, <<"kMD">>)
    /\ result.items[1] = <<MeetingDate, Chars("June 15, 2024")>>
    /\ result.items[10] = <<NoticeAccess, NotFound>>

-----------------------------------------------------------------------------
\* the scan is at a KEY block whose text it can read
AtKeyBlock ==
    /\ pc = "Scanning"
    /\ idx <= Len(blocks)
    /\ is_key_block(blocks[idx])
    /\ ~get_text_raises(blocks[idx], blocks_map)

(* C2: first match wins.  In a finished pass the value of every matched    *)
(* field is the value located from the first KEY block, in response order, *)
(* that normalises to the field, the empty string included; and a scan     *)
(* step at a KEY block whose field is already recorded leaves the recorded *)
(* values unchanged.                                                       *)
FirstMatchWins ==
    /\ [](pc = "Done" =>
            \A F \in MatchedFields :
                /\ extracted_data_raw[F] = find_value_block(FirstKeyFor(F), blocks_map)
                /\ (\E i \in 1..Len(result.items) : result.items[i][1] = F)
                       => ResultValue(F) = find_value_block(FirstKeyFor(F), blocks_map))
    /\ [][(/\ AtKeyBlock
           /\ FoundKeyOf(idx) \in DOMAIN normalized_lookup
           /\ normalized_lookup[FoundKeyOf(idx)] \in DOMAIN extracted_data_raw)
          => extracted_data_raw' = extracted_data_raw]_vars

\* two KEY blocks for Meeting Date, the first with no value: the empty string stays
FirstMatchWitness ==
    /\ pc = "Done"
    /\ IsPoolResponse({}, <<"kMDup", "kMD">>)
    /\ result.items[1] = <<MeetingDate, <<>> >>
    /\ find_value_block(blocks[Len(blocks)], blocks_map) = Chars("June 15, 2024")

-----------------------------------------------------------------------------
(* C3: a call that succeeds with zero blocks ends the pass in Empty with   *)
(* the empty map, which is neither the failure signal nor the map of ten   *)
(* "Not Found" fields that a response with blocks and no matching key      *)
(* gives.                                                                  *)
EmptyDocumentEmptyMap ==
    /\ (pc \in Terminal /\ response.kind = "ok" /\ blocks = <<>>)
           => (pc = "Empty" /\ result = EmptyDict)
    /\ pc = "Empty"
           => /\ response.kind = "ok" /\ blocks = <<>>
              /\ result.kind = "dict" /\ Len(result.items) = 0
              /\ result # None
              /\ result # final_results(EmptyMap)
    /\ (pc = "Done" /\ MatchedFields = {})
           => /\ Len(result.items) = Len(ORDERED_DISPLAY_KEYS)
              /\ AllNotFoundExcept(<<>>)
              /\ result # EmptyDict

\* the pass has returned for a response with a 'Blocks' list of length zero
EmptyDocumentWitness ==
    /\ pc = "Empty"
    /\ "Blocks" \in DOMAIN response
    /\ result = EmptyDict

-----------------------------------------------------------------------------
(* C4: whenever the call or a later step raises, the pass returns None,    *)
(* never a map, also when fields had been recorded before the raise.       *)
FailureReturnsNone ==
    /\ raised # "none" => (pc = "Failed" /\ result = None)
    /\ pc = "Failed" => (raised # "none" /\ result = None)
    /\ (pc \in Terminal /\ response.kind \in ErrorKinds)
           => (pc = "Failed" /\ raised = response.kind)
    /\ (pc \in Terminal /\ response = NoClient) => pc = "Failed"
    /\ (pc \in Terminal /\ response.kind = "ok" /\ build_blocks_map_raises(blocks))
           => pc = "Failed"
    /\ (pc = "Scanning" /\ idx <= Len(blocks) /\ scan_raises(blocks[idx]))
           => result = Pending

\* the scan raised at kBad after Meeting Date had been recorded
FailureWitness ==
    /\ pc = "Failed"
    /\ raised = "KeyError"
    /\ IsPoolResponse({}, <<"kMD", "kBad">>)
    /\ MeetingDate \in DOMAIN extracted_data_raw
    /\ result = None

-----------------------------------------------------------------------------
(* The value of a key block as the value-resolution rule words it.         *)

RelationshipsOf(block) ==
    IF "Relationships" \in DOMAIN block THEN block.Relationships ELSE <<>>

RECURSIVE Join(_)
\* the concatenation of a sequence of texts
Join(texts) == IF texts = <<>> THEN <<>> ELSE Head(texts) \o Join(Tail(texts))

\* the ids of the relationships of the given type, in relationship-list order then
\* id-list order, without the ids absent from the block index
LinkedIds(block, type) ==
    SelectSeq(Join([r \in 1..Len(RelationshipsOf(block)) |->
                      IF RelationshipsOf(block)[r].Type = type
                      THEN RelationshipsOf(block)[r].Ids ELSE <<>>]),
              LAMBDA id : id \in DOMAIN blocks_map)

\* a WORD child's text and one space, a SELECTION_ELEMENT child's bracketed status
\* and one space
ChildToken(child) ==
    IF child.BlockType = "WORD"
    THEN (IF "Text" \in DOMAIN child THEN child.Text ELSE <<>>) \o Chars(" ")
    ELSE IF child.BlockType = "SELECTION_ELEMENT"
    THEN Chars("[")
         \o (IF "SelectionStatus" \in DOMAIN child THEN child.SelectionStatus
             ELSE Chars("NOT_SELECTED"))
         \o Chars("] ")
    ELSE <<>>

ChildrenText(block) ==
    LET kids == LinkedIds(block, "CHILD")
    IN  Join([i \in 1..Len(kids) |-> ChildToken(blocks_map[kids[i]])])

\* the rule as claimed: the trimmed concatenation of the value blocks' child tokens
ClaimedValue(key_block) ==
    LET vals == LinkedIds(key_block, "VALUE")
    IN  strip(Join([i \in 1..Len(vals) |-> ChildrenText(blocks_map[vals[i]])]))

\* the text of one value block: its trimmed child tokens, or its own trimmed 'Text'
\* when the child tokens are blank and it has one
ValueBlockText(block) ==
    IF strip(ChildrenText(block)) # <<>> THEN strip(ChildrenText(block))
    ELSE IF "Text" \in DOMAIN block THEN strip(block.Text)
    ELSE <<>>

\* the rule as amended: every value block's text followed by one space, trimmed
AmendedValue(key_block) ==
    LET vals == LinkedIds(key_block, "VALUE")
    IN  strip(Join([i \in 1..Len(vals) |-> ValueBlockText(blocks_map[vals[i]]) \o Chars(" ")]))

(* C5 as claimed: the value recorded for a matched key block is the        *)
(* trimmed concatenation, over the value blocks its VALUE relationships    *)
(* reference, of every WORD child's text and one space and every           *)
(* SELECTION_ELEMENT child's bracketed status and one space.               *)
ValueIsChildTokensOnly ==
    pc = "Done" =>
        \A F \in MatchedFields : extracted_data_raw[F] = ClaimedValue(FirstKeyFor(F))

(* C5 as amended: the value recorded for a matched key block is the        *)
(* trimmed concatenation of the texts of its value blocks, each followed   *)
(* by one space, where a value block's text is its trimmed child tokens    *)
(* or, when those are blank and the block has a 'Text' of its own, that    *)
(* text trimmed; ids absent from the index add nothing and raise nothing;  *)
(* and the key "Meeting Date:" with value words "June", "15,", "2024"      *)
(* gives Meeting Date = "June 15, 2024" and nine fields "Not Found".       *)
ValueResolution ==
    /\ pc = "Done" =>
           \A F \in MatchedFields : extracted_data_raw[F] = AmendedValue(FirstKeyFor(F))
    /\ (pc = "Done" /\ IsPoolResponse({}, <<"kMD">>)) =>
           /\ ResultValue(MeetingDate) = Chars("June 15, 2024")
           /\ AllNotFoundExcept(MeetingDate)
    /\ (pc = "Done" /\ IsPoolResponse({"w15"}, <<"kMD">>)) =>
           /\ ResultValue(MeetingDate) = Chars("June 2024")
           /\ AllNotFoundExcept(MeetingDate)
    /\ (pc = "Done" /\ IsPoolResponse({"vDate"}, <<"kMD">>)) =>
           /\ ResultValue(MeetingDate) = <<>>
           /\ AllNotFoundExcept(MeetingDate)
    /\ (pc = "Done" /\ IsPoolResponse({}, <<"kIss">>)) =>
           /\ ResultValue(IssuerPay) = Chars("[SELECTED] [NOT_SELECTED]")
           /\ AllNotFoundExcept(IssuerPay)

\* the end-to-end scenario: Meeting Date found, the other nine defaulted
ValueResolutionWitness ==
    /\ pc = "Done"
    /\ IsPoolResponse({}, <<"kMD">>)
    /\ key_text = Chars("Meeting Date:")
    /\ ResultValue(MeetingDate) = Chars("June 15, 2024")
    /\ extracted_data_raw[MeetingDate] = AmendedValue(FirstKeyFor(MeetingDate))

-----------------------------------------------------------------------------
\* the variants of every item of TARGET_KEYS_MAP
VariantTable == [i \in 1..Len(TARGET_KEYS_MAP) |-> VariantsOf(TARGET_KEYS_MAP[i][1])]

(* C6: with the configured vocabulary, a key text obtained from a variant  *)
(* by a change of letter case, a swap of an embedded newline and space,    *)
(* and an appended colon matches and resolves to the field of the variant; *)
(* "MEETING DATE", "meeting date" and "Meeting Date:" resolve to Meeting   *)
(* Date and both "Issuer to pay..." variants resolve to one field.         *)
MatchingInsensitive ==
    (pc \in {"Scanning", "Done"} /\ target_keys_config = TARGET_KEYS_MAP) =>
        /\ \A i \in 1..Len(TARGET_KEYS_MAP) :
              key_text \in VariantTable[i] =>
                  /\ normalized_found_key \in DOMAIN normalized_lookup
                  /\ normalized_lookup[normalized_found_key] = TARGET_KEYS_MAP[i][2]
                  /\ normalized_lookup[normalized_found_key] =
                         normalized_lookup[normalize_variant(TARGET_KEYS_MAP[i][1])]
                  /\ TARGET_KEYS_MAP[i][2] \in DOMAIN extracted_data_raw
        /\ key_text \in {Chars("MEETING DATE"), Chars("meeting date"), Chars("Meeting Date:")}
              => normalized_lookup[normalized_found_key] = MeetingDate
        /\ normalized_lookup[normalize_variant(IssuerPayNl)] =
               normalized_lookup[normalize_variant(IssuerPay)]

\* an upper-case key with a newline for the space and a trailing colon matched
MatchingWitness ==
    /\ pc = "Done"
    /\ key_text = Chars("MEETING\nDATE:")
    /\ normalized_found_key = Chars("meeting date")
    /\ MeetingDate \in DOMAIN extracted_data_raw

-----------------------------------------------------------------------------
(* C7: the normal form computed for a discovered key is a fixed point of   *)
(* the normalisation: normalising it again returns it unchanged.           *)
NormalizationIdempotent ==
    normalize_found_key(normalized_found_key) = normalized_found_key

-----------------------------------------------------------------------------
(* C8: a scan step at a KEY block whose normal form is no vocabulary       *)
(* variant records nothing, changes no recorded value and does not fail;   *)
(* in the finished pass the returned map has no entry beyond the ordered   *)
(* fields and every field that no KEY block matched is "Not Found".        *)
UnmatchedKeySkipped ==
    /\ [][(AtKeyBlock /\ FoundKeyOf(idx) \notin DOMAIN normalized_lookup)
          => /\ extracted_data_raw' = extracted_data_raw
             /\ pc' = "Scanning"
             /\ raised' = "none"
             /\ result' = result]_vars
    /\ [](pc = "Done" =>
            /\ Len(result.items) = Len(ORDERED_DISPLAY_KEYS)
            /\ DOMAIN extracted_data_raw = MatchedFields
            /\ \A i \in 1..Len(result.items) :
                  /\ result.items[i][1] \in MatchedFields
                         => result.items[i][2] = extracted_data_raw[result.items[i][1]]
                  /\ result.items[i][1] \notin MatchedFields
                         => result.items[i][2] = NotFound)

\* "Quorum Requirement" was scanned after Meeting Date and the pass finished
UnmatchedKeyWitness ==
    /\ pc = "Done"
    /\ IsPoolResponse({}, <<"kMD", "kQ">>)
    /\ key_text = Chars("Quorum Requirement")
    /\ normalized_found_key \notin DOMAIN normalized_lookup
    /\ ResultValue(MeetingDate) = Chars("June 15, 2024")
    /\ AllNotFoundExcept(MeetingDate)

-----------------------------------------------------------------------------
\* the normal forms of the vocabulary items, in registration order
VariantForms ==
    SubSeq([j \in 1..Len(target_keys_config) |-> normalize_variant(target_keys_config[j][1])],
           1, Len(target_keys_config))

(* C9 as claimed: the lookup maps the normal form of every vocabulary item *)
(* to the field of the first item, in registration order, with that normal *)
(* form.                                                                   *)
FirstRegisteredWins ==
    pc \in {"Scanning", "Done"} =>
        LET forms == VariantForms
        IN  \A i \in 1..Len(forms) :
                normalized_lookup[forms[i]]
                    = target_keys_config[SetMin({j \in 1..Len(forms) : forms[j] = forms[i]})][2]

(* C9 as amended: the lookup maps the normal form of every vocabulary item *)
(* to the field of the last item, in registration order, with that normal  *)
(* form.                                                                   *)
LastRegisteredWins ==
    pc \in {"Scanning", "Done"} =>
        LET forms == VariantForms
        IN  /\ DOMAIN normalized_lookup = {forms[i] : i \in 1..Len(forms)}
            /\ \A i \in 1..Len(forms) :
                  normalized_lookup[forms[i]]
                      = target_keys_config[SetMax({j \in 1..Len(forms) : forms[j] = forms[i]})][2]

\* "Meeting Date" for Meeting Date, then "meeting date" for Meeting Type: the key
\* "meeting date" is recorded under Meeting Type
LastRegisteredWitness ==
    /\ pc = "Done"
    /\ target_keys_config = << <<Chars("Meeting Date"), MeetingDate>>,
                               <<Chars("meeting date"), MeetingType>> >>
    /\ ResultValue(MeetingType) = Chars("Annual")
    /\ ResultValue(MeetingDate) = NotFound

-----------------------------------------------------------------------------
Rank(p) == CASE p = "Start" -> 0 [] p = "Scanning" -> 1 [] OTHER -> 2

=============================================================================
